---- MODULE Spec2Model ----
(***************************************************************************)
(* Model of src/components/ExportControls.tsx: the three export handlers   *)
(* of the resume builder (exportToPDF, exportToDOCX, exportToHTML).        *)
(*                                                                         *)
(* JavaScript runs the handlers on one thread.  A task (a click handler,   *)
(* a timer callback, the settling of a promise) runs to completion, and    *)
(* the promise reactions it queues (then / catch / finally) run before the *)
(* next task starts.  Every action below is one such callback, whole.      *)
(*                                                                         *)
(* Pixel quantities of the slicing loop are JavaScript numbers.  They are  *)
(* modelled as exact rationals: a quantity q pixels is represented by the  *)
(* integer q * contentWidth ("units"), which is exact because the only     *)
(* division of the loop is the one by contentWidth (line 91).              *)
(***************************************************************************)
EXTENDS Integers, Sequences, FiniteSets, TLC

\* ---------------------------------------------------------------- bounds
MaxClicks == 2
MaxCanvasWidth == 2
MaxCanvasHeight == 7
MaxPageContent == 3
MaxEntries == 2
MaxChars == 4

\* ------------------------------------------------------------- constants
MARGIN == 30

Calls == 1..MaxClicks

VARIABLES
    hasContent,            \* document.getElementById('resume-content') # null
    hasPreview,            \* document.getElementById('resume-preview') # null
    hasWrapper,            \* resumeContentElement.parentElement # null
    dark,                  \* root.classList.contains('dark')
    style,                 \* inline style of preview / wrapper / content
    pageSize,              \* pdf.internal.pageSize (width, height), in pt
    canvas,                \* size of the canvas html2canvas resolves with
    resumeData,            \* the resumeData prop
    initDark, initStyle,   \* history: the DOM before the first export
    clicksLeft,            \* button clicks still to come
    pc,                    \* position of each export call
    kind,                  \* which button started the call
    isDarkMode,            \* local of exportToPDF
    originalPreviewStyle,  \* local of exportToPDF
    originalWrapperStyle,  \* local of exportToPDF
    originalContentStyle,  \* local of exportToPDF
    captureOutcome,        \* how the html2canvas promise settled
    overlaps,              \* history: the PDF exports under way when the call started
    trace,                 \* per call: DOM / library / console effects, in order
    slices,                \* per call: the drawImage source rectangles added to the pdf
    blocks                 \* per call: the children of the docx section

vars == <<hasContent, hasPreview, hasWrapper, dark, style, pageSize, canvas,
          resumeData, initDark, initStyle, clicksLeft, pc, kind, isDarkMode,
          originalPreviewStyle, originalWrapperStyle, originalContentStyle,
          captureOutcome, overlaps, trace, slices, blocks>>

domVars == <<hasContent, hasPreview, hasWrapper, pageSize, canvas, resumeData,
             initDark, initStyle>>
snapVars == <<isDarkMode, originalPreviewStyle, originalWrapperStyle,
              originalContentStyle>>

\* ------------------------------------------------------------ inline style
Elems == {"preview", "wrapper", "content"}
Props == {"overflow", "height", "paddingTop", "aspectRatio", "position"}

NoInline == [e \in Elems |-> [p \in Props |-> ""]]

AppInline ==
    [e \in Elems |->
        IF e = "preview" THEN [p \in Props |-> IF p = "overflow" THEN "hidden"
                                               ELSE IF p = "height" THEN "100%" ELSE ""]
        ELSE IF e = "wrapper" THEN [p \in Props |-> IF p = "paddingTop" THEN "141%" ELSE ""]
        ELSE [p \in Props |-> IF p = "position" THEN "absolute"
                              ELSE IF p = "height" THEN "100%" ELSE ""]]

\* element.style.cssText (getter): the declarations that are set
CssText(s) == {<<p, s[p]>> : p \in {q \in Props : s[q] # ""}}

\* element.style.cssText = t (setter): drops every declaration, then parses t
SetCssText(t) ==
    [p \in Props |-> IF \E d \in t : d[1] = p
                     THEN (CHOOSE d \in t : d[1] = p)[2]
                     ELSE ""]

\* lines 52-58: the temporary styles
ApplyTemporaryStyles(st) ==
    [st EXCEPT !["preview"]["overflow"] = "visible",
               !["preview"]["height"] = "auto",
               !["wrapper"]["height"] = "auto",
               !["wrapper"]["paddingTop"] = "0",
               !["wrapper"]["aspectRatio"] = "auto",
               !["content"]["position"] = "static",
               !["content"]["height"] = "auto"]

\* lines 143-145: the restoration
RestoreStyles(st, c) ==
    [st EXCEPT !["preview"] = SetCssText(originalPreviewStyle[c]),
               !["wrapper"] = SetCssText(originalWrapperStyle[c]),
               !["content"] = SetCssText(originalContentStyle[c])]

\* ------------------------------------------------------------- pagination
Min(a, b) == IF a <= b THEN a ELSE b

\* Math.ceil(a / b) for a >= 0, b > 0
Ceil(a, b) == (a + b - 1) \div b

ContentWidth(pdfWidth) == pdfWidth - MARGIN * 2
PageContentHeight(pdfHeight) == pdfHeight - MARGIN * 2

\* line 91, in units: (pageContentHeight * canvasWidth) / contentWidth pixels
PageContentHeightInCanvasPixels(pageContentHeight, canvasWidth) ==
    pageContentHeight * canvasWidth

\* canvas.height in units
CanvasHeightUnits(canvasHeight, contentWidth) == canvasHeight * contentWidth

NumPagesFloor(canvasHeightU, pagePxU) == canvasHeightU \div pagePxU
NumPagesPlusOne(canvasHeightU, pagePxU) == canvasHeightU \div pagePxU + 1

\* line 94
NumPages(canvasHeightU, pagePxU) == Ceil(canvasHeightU, pagePxU)

\* line 106
AddsPage(i) == i > 0

SourceHeightFullPage(pagePxU, canvasHeightU, sourceY) == pagePxU

\* line 112
SourceHeight(pagePxU, canvasHeightU, sourceY) == Min(pagePxU, canvasHeightU - sourceY)

\* lines 105-133.  throws: pageCanvas.toDataURL raises (tainted canvas).
RECURSIVE SliceLoop(_, _, _, _, _, _, _)
SliceLoop(i, numPages, pagePxU, canvasHeightU, contentWidth, throws, acc) ==
    IF i >= numPages THEN [acc EXCEPT !.completed = TRUE]
    ELSE
      LET t1 == IF AddsPage(i) THEN Append(acc.trace, "addPage") ELSE acc.trace
          sourceY == i * pagePxU
          sourceHeight == SourceHeight(pagePxU, canvasHeightU, sourceY)
      IN IF sourceHeight <= 0
         THEN SliceLoop(i + 1, numPages, pagePxU, canvasHeightU, contentWidth,
                        throws, [acc EXCEPT !.trace = t1])
         ELSE IF throws
         THEN [acc EXCEPT !.trace = t1 \o <<"drawImage", "toDataURL">>]
         ELSE SliceLoop(i + 1, numPages, pagePxU, canvasHeightU, contentWidth, throws,
                        [acc EXCEPT
                           !.trace = t1 \o <<"drawImage", "toDataURL", "addImage">>,
                           !.slices = Append(acc.slices,
                              [sourceY |-> sourceY,
                               sourceHeight |-> sourceHeight,
                               \* pageCanvas.height is an integer attribute
                               pageCanvasHeight |-> sourceHeight \div contentWidth])])

\* lines 74-135: the body of the then callback once the 2D context exists
SliceAndSave(pdfWidth, pdfHeight, canvasWidth, canvasHeight, throws) ==
    LET contentWidth == ContentWidth(pdfWidth)
        pageContentHeight == PageContentHeight(pdfHeight)
        pagePxU == PageContentHeightInCanvasPixels(pageContentHeight, canvasWidth)
        canvasHeightU == CanvasHeightUnits(canvasHeight, contentWidth)
        numPages == NumPages(canvasHeightU, pagePxU)
        r == SliceLoop(0, numPages, pagePxU, canvasHeightU, contentWidth, throws,
                       [trace |-> <<>>, slices |-> <<>>, completed |-> FALSE])
    IN IF r.completed THEN [r EXCEPT !.trace = Append(r.trace, "pdf.save")] ELSE r

\* ------------------------------------------------------------ docx blocks
\* A text is a sequence of string pieces; a description is spelled out
\* character by character, over Chars.
Chars == {"-", " ", "a", "\n"}
Whitespace == {" ", "\n"}

\* new Paragraph({ text, heading, style, bullet }) / new Paragraph(text)
Paragraph(text, heading, pstyle, bullet) ==
    [text |-> text, heading |-> heading, style |-> pstyle, bullet |-> bullet]
Plain(text) == Paragraph(text, "NONE", "none", FALSE)
Heading(text, level) == Paragraph(text, level, "none", FALSE)
Strong(text) == Paragraph(text, "NONE", "strong", FALSE)
Bullet(text) == Paragraph(text, "NONE", "none", TRUE)
Spacer == Plain(<<>>)

\* String.prototype.split('\n')
RECURSIVE Split(_, _)
Split(s, cur) ==
    IF s = <<>> THEN <<cur>>
    ELSE IF Head(s) = "\n" THEN <<cur>> \o Split(Tail(s), <<>>)
    ELSE Split(Tail(s), Append(cur, Head(s)))

\* String.prototype.trim()
RECURSIVE TrimLeft(_)
TrimLeft(s) == IF s # <<>> /\ Head(s) \in Whitespace THEN TrimLeft(Tail(s)) ELSE s
RECURSIVE TrimRight(_)
TrimRight(s) ==
    IF s # <<>> /\ s[Len(s)] \in Whitespace THEN TrimRight(SubSeq(s, 1, Len(s) - 1)) ELSE s
Trim(s) == TrimRight(TrimLeft(s))

\* Array.prototype.filter(l => l.trim() !== '')
RECURSIVE FilterNonBlank(_)
FilterNonBlank(ls) ==
    IF ls = <<>> THEN <<>>
    ELSE IF Trim(Head(ls)) # <<>> THEN <<Head(ls)>> \o FilterNonBlank(Tail(ls))
    ELSE FilterNonBlank(Tail(ls))

RECURSIVE StripEveryBulletPrefix(_)
StripEveryBulletPrefix(d) ==
    IF Len(d) >= 2 /\ d[1] = "-" /\ d[2] = " "
    THEN StripEveryBulletPrefix(SubSeq(d, 3, Len(d))) ELSE d

\* d.replace(/^- /, '')
StripBulletPrefix(d) ==
    IF Len(d) >= 2 /\ d[1] = "-" /\ d[2] = " " THEN SubSeq(d, 3, Len(d)) ELSE d

\* line 176
DescriptionBullets(description) ==
    LET ls == FilterNonBlank(Split(description, <<>>))
    IN [j \in 1..Len(ls) |-> Bullet(StripBulletPrefix(ls[j]))]

\* Array.prototype.flatMap, applied to the arrays the callback returned
RECURSIVE Flatten(_)
Flatten(xss) == IF xss = <<>> THEN <<>> ELSE Head(xss) \o Flatten(Tail(xss))

\* Array.prototype.join(', ')
RECURSIVE Join(_)
Join(xs) ==
    IF xs = <<>> THEN <<>>
    ELSE IF Len(xs) = 1 THEN Head(xs)
    ELSE Head(xs) \o <<",", " ">> \o Join(Tail(xs))

\* lines 161-164
IdentityBlocks(personalInfo) ==
    << Heading(personalInfo.name, "TITLE"),
       Heading(personalInfo.title, "HEADING_2"),
       Plain(<<"Email: ">> \o personalInfo.email \o <<" | Phone: ">> \o personalInfo.phone
             \o <<" | Website: ">> \o personalInfo.website),
       Spacer >>

\* lines 167-169
SummaryBlocks(summary) ==
    << Heading(<<"Summary">>, "HEADING_1"), Plain(summary), Spacer >>

\* lines 174-177
ExperienceEntry(exp) ==
    << Strong(exp.title \o <<" - ">> \o exp.company),
       Plain(exp.startDate \o <<" - ">> \o exp.endDate) >>
    \o DescriptionBullets(exp.description)
    \o << Spacer >>

ExperienceBlocksHeadingIfAny(experience) ==
    IF experience = <<>> THEN <<>>
    ELSE << Heading(<<"Experience">>, "HEADING_1") >> \o Flatten([k \in DOMAIN experience |-> ExperienceEntry(experience[k])])

\* lines 172-178
ExperienceBlocks(experience) ==
    << Heading(<<"Experience">>, "HEADING_1") >> \o Flatten([k \in DOMAIN experience |-> ExperienceEntry(experience[k])])

\* lines 183-185
EducationEntry(edu) ==
    << Strong(edu.degree \o <<", ">> \o edu.school),
       Plain(edu.location \o <<" | ">> \o edu.graduationDate),
       Spacer >>

\* lines 181-186
EducationBlocks(education) ==
    << Heading(<<"Education">>, "HEADING_1") >> \o Flatten([k \in DOMAIN education |-> EducationEntry(education[k])])

\* lines 189-191
SkillsBlocks(skills) ==
    << Heading(<<"Skills">>, "HEADING_1"),
       Plain(Join([j \in 1..Len(skills) |-> skills[j].name])),
       Spacer >>

\* lines 196-199
ProjectEntry(proj) ==
    << Strong(proj.name), Plain(proj.description), Plain(proj.link), Spacer >>

\* lines 194-200
ProjectsBlocks(projects) ==
    << Heading(<<"Projects">>, "HEADING_1") >> \o Flatten([k \in DOMAIN projects |-> ProjectEntry(projects[k])])

\* lines 204-206
CustomSectionEntry(section) ==
    << Heading(section.title, "HEADING_1"), Plain(section.content), Spacer >>

\* lines 203-207
CustomSectionsBlocks(customSections) == Flatten([k \in DOMAIN customSections |-> CustomSectionEntry(customSections[k])])

\* lines 157-210: the children of the single section
DocumentChildren(rd) ==
    IdentityBlocks(rd.personalInfo)
    \o SummaryBlocks(rd.summary)
    \o ExperienceBlocks(rd.experience)
    \o EducationBlocks(rd.education)
    \o SkillsBlocks(rd.skills)
    \o ProjectsBlocks(rd.projects)
    \o CustomSectionsBlocks(rd.customSections)

\* ------------------------------------------------------------ resume data
Piece(name, k) == <<name, ToString(k)>>

PersonalInfo ==
    [name |-> <<"name">>, title |-> <<"title">>, email |-> <<"email">>,
     phone |-> <<"phone">>, website |-> <<"website">>]

Experience(k, description) ==
    [title |-> Piece("title", k), company |-> Piece("company", k),
     startDate |-> Piece("start", k), endDate |-> Piece("end", k),
     description |-> description]
Education(k) ==
    [degree |-> Piece("degree", k), school |-> Piece("school", k),
     location |-> Piece("location", k), graduationDate |-> Piece("graduation", k)]
Skill(k) == [name |-> Piece("skill", k)]
Project(k) ==
    [name |-> Piece("project", k), description |-> Piece("about", k),
     link |-> Piece("link", k)]
CustomSection(k) == [title |-> Piece("section", k), content |-> Piece("content", k)]

Descriptions(n) == UNION {[1..m -> Chars] : m \in 0..n}

RECURSIVE SumTo(_, _)
SumTo(f, n) == IF n = 0 THEN 0 ELSE f[n] + SumTo(f, n - 1)

\* the experience array of n entries whose descriptions are the consecutive
\* pieces, of lengths lens[1..n], of the text flat
ExperienceArray(flat, lens) ==
    [k \in DOMAIN lens |->
        Experience(k, SubSeq(flat, SumTo(lens, k - 1) + 1, SumTo(lens, k)))]

\* the ways to cut a text of total characters into n descriptions
Cuts(n, total) == {l \in [1..n -> 0..total] : SumTo(l, n) = total}

\* the lengths of the five arrays: at most MaxEntries entries in all
EntryCounts == {n \in [1..5 -> 0..MaxEntries] : SumTo(n, 5) <= MaxEntries}

Resume(experience, ne, ns, np, nc) ==
    [personalInfo |-> PersonalInfo,
     summary |-> <<"summary">>,
     experience |-> experience,
     education |-> [k \in 1..ne |-> Education(k)],
     skills |-> [k \in 1..ns |-> Skill(k)],
     projects |-> [k \in 1..np |-> Project(k)],
     customSections |-> [k \in 1..nc |-> CustomSection(k)]]

DefaultResume ==
    Resume(ExperienceArray(<<"-", " ", "a", "\n", "a">>, <<5>>), 1, 1, 1, 1)

\* ------------------------------------------------------------------- Init
InitCalls ==
    /\ initDark = dark
    /\ initStyle = style
    /\ pc = [c \in Calls |-> "idle"]
    /\ kind = [c \in Calls |-> "none"]
    /\ isDarkMode = [c \in Calls |-> FALSE]
    /\ originalPreviewStyle = [c \in Calls |-> {}]
    /\ originalWrapperStyle = [c \in Calls |-> {}]
    /\ originalContentStyle = [c \in Calls |-> {}]
    /\ captureOutcome = [c \in Calls |-> "none"]
    /\ overlaps = [c \in Calls |-> {}]
    /\ trace = [c \in Calls |-> <<>>]
    /\ slices = [c \in Calls |-> <<>>]
    /\ blocks = [c \in Calls |-> <<>>]

\* any page, several clicks
Init ==
    /\ hasContent \in BOOLEAN
    /\ hasPreview \in BOOLEAN
    /\ hasWrapper \in {b \in BOOLEAN : b => hasContent}
    /\ dark \in BOOLEAN
    /\ style \in {NoInline, AppInline}
    /\ pageSize = [width |-> MARGIN * 2 + 2, height |-> MARGIN * 2 + 3]
    /\ canvas \in {[width |-> 2, height |-> h] : h \in {3, 4}}
    /\ resumeData = DefaultResume
    /\ clicksLeft = MaxClicks
    /\ InitCalls

\* one click on a complete page, any page and canvas geometry
SliceInit ==
    /\ hasContent = TRUE
    /\ hasPreview = TRUE
    /\ hasWrapper = TRUE
    /\ dark \in BOOLEAN
    /\ style = AppInline
    /\ pageSize \in {[width |-> MARGIN * 2 + w, height |-> MARGIN * 2 + h] :
                        w \in 1..MaxPageContent, h \in 1..MaxPageContent}
    /\ canvas \in {[width |-> w, height |-> h] :
                        w \in 1..MaxCanvasWidth, h \in 1..MaxCanvasHeight}
    /\ resumeData = DefaultResume
    /\ clicksLeft = 1
    /\ InitCalls

\* one click, on any resume of at most MaxEntries entries and MaxChars
\* characters of description when the page has no resume-content, on the
\* default resume when the page is complete
DocxInit ==
    /\ hasContent \in BOOLEAN
    /\ hasPreview = hasContent
    /\ hasWrapper = hasContent
    /\ dark = FALSE
    /\ style = AppInline
    /\ pageSize = [width |-> MARGIN * 2 + 2, height |-> MARGIN * 2 + 3]
    /\ canvas = [width |-> 2, height |-> 3]
    /\ IF hasContent
       THEN resumeData = DefaultResume
       ELSE \E n \in EntryCounts, flat \in Descriptions(MaxChars) :
               \E lens \in Cuts(n[1], Len(flat)) :
                  resumeData = Resume(ExperienceArray(flat, lens), n[2], n[3], n[4], n[5])
    /\ clicksLeft = 1
    /\ InitCalls

\* ---------------------------------------------------------------- actions
\* promise reactions are pending: they run before the next task
MicrotasksIdle == \A c \in Calls : pc[c] \notin {"thenReturned", "thenThrew", "rejected", "caught"}

\* the call a click starts
IsNextCall(c) == pc[c] = "idle" /\ \A d \in Calls : d < c => pc[d] # "idle"

Click(c, button) ==
    /\ clicksLeft > 0
    /\ MicrotasksIdle
    /\ IsNextCall(c)
    /\ clicksLeft' = clicksLeft - 1
    /\ kind' = [kind EXCEPT ![c] = button]
    /\ overlaps' = [overlaps EXCEPT ![c] = {d \in Calls : pc[d] \in {"timer", "capturing"}}]

Emit(c, events) == trace' = [trace EXCEPT ![c] = trace[c] \o events]

\* lines 22-61 and 151: the click handler of the PDF button
ExportToPDF(c) ==
    /\ Click(c, "pdf")
    /\ IF ~hasContent
       THEN /\ Emit(c, <<"console.error", "alert">>)
            /\ pc' = [pc EXCEPT ![c] = "done"]
            /\ UNCHANGED <<dark, style, snapVars>>
       ELSE /\ isDarkMode' = [isDarkMode EXCEPT ![c] = dark]
            /\ IF ~hasPreview \/ ~hasWrapper
               THEN /\ Emit(c, IF dark THEN <<"removeDark", "addDark">> ELSE <<>>)
                    /\ pc' = [pc EXCEPT ![c] = "done"]
                    /\ UNCHANGED <<dark, style, originalPreviewStyle,
                                   originalWrapperStyle, originalContentStyle>>
               ELSE /\ dark' = FALSE
                    /\ originalPreviewStyle' =
                          [originalPreviewStyle EXCEPT ![c] = CssText(style["preview"])]
                    /\ originalWrapperStyle' =
                          [originalWrapperStyle EXCEPT ![c] = CssText(style["wrapper"])]
                    /\ originalContentStyle' =
                          [originalContentStyle EXCEPT ![c] = CssText(style["content"])]
                    /\ style' = ApplyTemporaryStyles(style)
                    /\ Emit(c, (IF dark THEN <<"removeDark">> ELSE <<>>)
                               \o <<"override", "setTimeout">>)
                    /\ pc' = [pc EXCEPT ![c] = "timer"]
    /\ UNCHANGED <<domVars, captureOutcome, slices, blocks>>

\* lines 61-72: the timer callback.  window.jspdf and html2canvas are globals
\* set by scripts of the page; the destructuring of line 63 throws when the
\* script did not load, and nothing catches it.
TimerFires(c) ==
    /\ pc[c] = "timer"
    /\ MicrotasksIdle
    /\ \E libsLoaded \in BOOLEAN :
          IF libsLoaded
          THEN /\ Emit(c, <<"html2canvas">>)
               /\ captureOutcome' = [captureOutcome EXCEPT ![c] = "pending"]
               /\ pc' = [pc EXCEPT ![c] = "capturing"]
          ELSE /\ Emit(c, <<"uncaught TypeError">>)
               /\ pc' = [pc EXCEPT ![c] = "crashed"]
               /\ UNCHANGED captureOutcome
    /\ UNCHANGED <<domVars, dark, style, clicksLeft, kind, overlaps, snapVars, slices, blocks>>

\* lines 73-136: html2canvas resolves and the then callback runs
CaptureResolved(c) ==
    /\ pc[c] = "capturing"
    /\ MicrotasksIdle
    /\ captureOutcome' = [captureOutcome EXCEPT ![c] = "resolved"]
    /\ \E ctxAvailable \in BOOLEAN, throws \in BOOLEAN :
          IF ~ctxAvailable
          THEN /\ ~throws
               /\ Emit(c, <<"new jsPDF", "getContext=null", "console.error">>)
               /\ pc' = [pc EXCEPT ![c] = "thenReturned"]
               /\ UNCHANGED slices
          ELSE LET r == SliceAndSave(pageSize.width, pageSize.height,
                                     canvas.width, canvas.height, throws)
               IN /\ Emit(c, <<"new jsPDF", "getContext=2d">> \o r.trace)
                  /\ slices' = [slices EXCEPT ![c] = r.slices]
                  /\ pc' = [pc EXCEPT ![c] = IF r.completed THEN "thenReturned"
                                                             ELSE "thenThrew"]
    /\ UNCHANGED <<domVars, dark, style, clicksLeft, kind, overlaps, snapVars, blocks>>

\* html2canvas rejects
CaptureRejected(c) ==
    /\ pc[c] = "capturing"
    /\ MicrotasksIdle
    /\ captureOutcome' = [captureOutcome EXCEPT ![c] = "rejected"]
    /\ pc' = [pc EXCEPT ![c] = "rejected"]
    /\ UNCHANGED <<domVars, dark, style, clicksLeft, kind, overlaps, snapVars, trace, slices, blocks>>

\* lines 137-140
CatchHandler(c) ==
    /\ pc[c] \in {"rejected", "thenThrew"}
    /\ Emit(c, <<"console.error", "alert">>)
    /\ pc' = [pc EXCEPT ![c] = "caught"]
    /\ UNCHANGED <<domVars, dark, style, clicksLeft, kind, overlaps, snapVars, captureOutcome,
                   slices, blocks>>

FinallyReadyUnchained(c) == pc[c] \in {"capturing", "thenReturned", "caught"}

\* lines 136-141: finally is chained after then and catch
FinallyReady(c) == pc[c] \in {"thenReturned", "caught"}

\* lines 141-150
FinallyHandler(c) ==
    /\ FinallyReady(c)
    /\ style' = RestoreStyles(style, c)
    /\ dark' = IF isDarkMode[c] THEN TRUE ELSE dark
    /\ Emit(c, <<"restore">> \o (IF isDarkMode[c] THEN <<"addDark">> ELSE <<>>))
    /\ pc' = [pc EXCEPT ![c] = "done"]
    /\ UNCHANGED <<domVars, clicksLeft, kind, overlaps, snapVars, captureOutcome, slices, blocks>>

\* lines 154-211 and 212: the click handler of the DOCX button
ExportToDOCX(c) ==
    /\ Click(c, "docx")
    /\ blocks' = [blocks EXCEPT ![c] = DocumentChildren(resumeData)]
    /\ Emit(c, <<"new Document", "Packer.toBlob">>)
    /\ pc' = [pc EXCEPT ![c] = "packing"]
    /\ UNCHANGED <<domVars, dark, style, snapVars, captureOutcome, slices>>

\* lines 212-214 and 7-13: Packer.toBlob resolves and the then callback runs
DocxPacked(c) ==
    /\ pc[c] = "packing"
    /\ MicrotasksIdle
    /\ Emit(c, <<"saveBlob">>)
    /\ pc' = [pc EXCEPT ![c] = "done"]
    /\ UNCHANGED <<domVars, dark, style, clicksLeft, kind, overlaps, snapVars, captureOutcome,
                   slices, blocks>>

\* lines 217-266: the click handler of the HTML button
ExportToHTML(c) ==
    /\ Click(c, "html")
    /\ IF ~hasContent
       THEN Emit(c, <<"console.error", "alert">>)
       ELSE Emit(c, <<"new Blob", "saveBlob">>)
    /\ pc' = [pc EXCEPT ![c] = "done"]
    /\ UNCHANGED <<domVars, dark, style, snapVars, captureOutcome, slices, blocks>>

Next ==
    \/ \E c \in Calls : ExportToPDF(c)
    \/ \E c \in Calls : TimerFires(c)
    \/ \E c \in Calls : CaptureResolved(c)
    \/ \E c \in Calls : CaptureRejected(c)
    \/ \E c \in Calls : CatchHandler(c)
    \/ \E c \in Calls : FinallyHandler(c)
    \/ \E c \in Calls : ExportToDOCX(c)
    \/ \E c \in Calls : DocxPacked(c)
    \/ \E c \in Calls : ExportToHTML(c)

Spec == Init /\ [][Next]_vars
SliceSpec == SliceInit /\ [][Next]_vars
DocxSpec == DocxInit /\ [][Next]_vars

\* promise reactions are microtasks: once queued they run
LiveSpec ==
    /\ Init /\ [][Next]_vars
    /\ \A c \in Calls : WF_vars(CatchHandler(c)) /\ WF_vars(FinallyHandler(c))

\* ----------------------------------------------------------------- claims
Range(seq) == {seq[i] : i \in DOMAIN seq}
Positions(seq, events) == {i \in DOMAIN seq : seq[i] \in events}
Count(seq, event) == Cardinality(Positions(seq, {event}))
RECURSIVE SumHeights(_)
SumHeights(ss) == IF ss = <<>> THEN 0 ELSE Head(ss).sourceHeight + SumHeights(Tail(ss))

Terminal == {"done", "crashed"}
Saved(c) == "pdf.save" \in Range(trace[c])

\* the raster height and the page content height in canvas pixels, both in
\* units of 1 / contentWidth pixel
RasterHeight == canvas.height * (pageSize.width - 2 * MARGIN)
PagePx == (pageSize.height - 2 * MARGIN) * canvas.width

\* C1: the slices of a saved PDF tile the raster: the first starts at 0, each
\* next one starts where the previous one ends, none is taller than what
\* remains of the raster, and their heights add up to canvasHeight.
C1_SlicesTileRaster ==
    \A c \in Calls : Saved(c) =>
        LET ss == slices[c] IN
        /\ Len(ss) >= 1
        /\ ss[1].sourceY = 0
        /\ \A j \in 1..(Len(ss) - 1) : ss[j + 1].sourceY = ss[j].sourceY + ss[j].sourceHeight
        /\ \A j \in DOMAIN ss : /\ ss[j].sourceHeight > 0
                                /\ ss[j].sourceHeight <= RasterHeight - ss[j].sourceY
        /\ SumHeights(ss) = RasterHeight

\* a saved PDF of at least three slices whose last slice is a partial page
C1_Witness ==
    \E c \in Calls : /\ Saved(c)
                     /\ Len(slices[c]) >= 3
                     /\ slices[c][Len(slices[c])].sourceHeight < slices[c][1].sourceHeight

\* C2: the number of slices is ceiling(canvasHeight / pageContentPx): the least
\* n with n * pageContentPx >= canvasHeight; it is at least 1, and it is k when
\* canvasHeight = k * pageContentPx.
C2_SliceCount ==
    \A c \in Calls : Saved(c) =>
        LET n == Len(slices[c]) IN
        /\ n >= 1
        /\ n * PagePx >= RasterHeight
        /\ (n - 1) * PagePx < RasterHeight
        /\ \A k \in 1..RasterHeight : RasterHeight = k * PagePx => n = k

\* a saved PDF whose raster is exactly k >= 2 pages tall
C2_Witness ==
    \E c \in Calls : /\ Saved(c)
                     /\ \E k \in 2..RasterHeight : /\ RasterHeight = k * PagePx
                                                   /\ Len(slices[c]) = k

Modified(c) == Range(trace[c]) \cap {"removeDark", "override"} # {}
Alone(c) == \A d \in Calls \ {c} : pc[d] = "idle"
DomAsBefore ==
    /\ \A e \in Elems : CssText(style[e]) = CssText(initStyle[e])
    /\ dark = initDark

\* C3: an export that removed the dark class or overrode a style, and that no
\* other export runs beside, has on every exit put back the cssText of the
\* three elements and the dark class as they were before it.
C3_RestoredOnEveryExit ==
    \A c \in Calls :
        (kind[c] = "pdf" /\ pc[c] \in Terminal /\ Modified(c) /\ Alone(c)) => DomAsBefore

MissingAnchor(c) ==
    \/ kind[c] = "pdf" /\ (~hasContent \/ ~hasPreview \/ ~hasWrapper)
    \/ kind[c] = "html" /\ ~hasContent

\* C4: a PDF or HTML export that misses a DOM anchor logs the error, alerts
\* the user and ends with no capture attempted and no file saved.
C4_MissingAnchorAlerts ==
    \A c \in Calls : MissingAnchor(c) =>
        /\ pc[c] = "done"
        /\ {"console.error", "alert"} \subseteq Range(trace[c])
        /\ Range(trace[c]) \cap {"html2canvas", "pdf.save", "saveBlob"} = {}

CaptureFailed(c) == captureOutcome[c] = "rejected" \/ "getContext=null" \in Range(trace[c])

\* C5: a PDF export whose capture rejected or whose 2D context is missing ends
\* with exactly one alert and without pdf.save.
C5_FailureAlertsOnce ==
    \A c \in Calls : (pc[c] \in Terminal /\ CaptureFailed(c)) =>
        /\ Count(trace[c], "alert") = 1
        /\ ~Saved(c)

Restored(c) == "restore" \in Range(trace[c])

\* C10: when two PDF exports overlapped and both have run their restoration,
\* and no export is under way, the cssText of the three elements and the dark
\* class are as before the first export.
C10_OverlappingExportsRestore ==
    (/\ \E c, d \in Calls : /\ d \in overlaps[c]
                            /\ pc[c] = "done" /\ Restored(c)
                            /\ pc[d] = "done" /\ Restored(d)
     /\ \A c \in Calls : pc[c] \in {"idle", "done"})
    => DomAsBefore

SlicingEvents == {"addPage", "drawImage", "toDataURL", "addImage", "pdf.save"}
Before(seq, first, then) ==
    \A j \in Positions(seq, then) : \E i \in Positions(seq, first) : i < j

C8_Ordered(c) ==
    LET t == trace[c] IN
    \* overrides, then capture, then slicing and saving, then restoration
    /\ Before(t, {"override"}, {"html2canvas"})
    /\ Before(t, {"html2canvas"}, SlicingEvents)
    /\ Positions(t, SlicingEvents) # {} => captureOutcome[c] = "resolved"
    /\ \A r \in Positions(t, {"restore"}) :
          /\ \A j \in Positions(t, SlicingEvents \cup {"html2canvas", "override"}) : j < r
          \* restoration waits for the end of slicing and saving
          /\ \/ \E j \in Positions(t, {"pdf.save"}) : j < r
             \/ \E j \in Positions(t, {"getContext=null"}) : j < r
             \/ \E j \in Positions(t, {"alert"}) : j < r
    \* a failed capture: no slicing, and the alert precedes the restoration
    /\ captureOutcome[c] = "rejected" =>
          /\ Positions(t, SlicingEvents) = {}
          /\ Before(t, {"alert"}, {"restore"})

\* C8: in every PDF export the overrides precede the capture, the capture
\* precedes slicing and saving, and the restoration comes after all of them;
\* after a rejected capture the restoration still runs, after the alert and
\* with no slicing.
C8_EventOrder ==
    /\ [](\A c \in Calls : C8_Ordered(c))
    /\ \A c \in Calls : (captureOutcome[c] = "rejected") ~> (Restored(c) /\ pc[c] = "done")

\* a two-page PDF was saved and the styles were restored, while another export
\* had its capture rejected and restored too
C8_Witness ==
    \E c, d \in Calls : /\ Saved(c) /\ Restored(c) /\ Count(trace[c], "addImage") >= 2
                        /\ captureOutcome[d] = "rejected" /\ Restored(d)

AllEmpty(rd) ==
    /\ rd.experience = <<>> /\ rd.education = <<>> /\ rd.skills = <<>>
    /\ rd.projects = <<>> /\ rd.customSections = <<>>
IdentityOrSummary(rd) ==
    Range(IdentityBlocks(rd.personalInfo)) \cup Range(SummaryBlocks(rd.summary)) \cup {Spacer}
SectionHeadings ==
    {Heading(<<h>>, "HEADING_1") : h \in {"Experience", "Education", "Skills", "Projects"}}
DocxBuilt(c) == kind[c] = "docx" /\ pc[c] # "idle"

\* C6 as stated: with the five arrays empty, every block is an identity block,
\* a spacer or a Summary block.
C6_OnlyIdentitySpacerSummary ==
    \A c \in Calls : (DocxBuilt(c) /\ AllEmpty(resumeData)) =>
        Range(blocks[c]) \subseteq IdentityOrSummary(resumeData)

\* C6 amended: with the five arrays empty, every block is an identity block, a
\* spacer (an empty paragraph), a Summary block or one of the four section
\* headings Experience, Education, Skills, Projects, each heading occurring
\* exactly once.
C6_EmptyResumeBlocks ==
    \A c \in Calls : (DocxBuilt(c) /\ AllEmpty(resumeData)) =>
        /\ Range(blocks[c]) \subseteq IdentityOrSummary(resumeData) \cup SectionHeadings
        /\ \A h \in SectionHeadings : Cardinality(Positions(blocks[c], {h})) = 1

\* the document of a resume with five empty arrays was saved
C6_Witness ==
    \E c \in Calls : DocxBuilt(c) /\ pc[c] = "done" /\ AllEmpty(resumeData)

\* the lines of a description, by position: a line starts at 1 or after a
\* newline and ends before the next newline or at the end
LineStarts(d) == {a \in 1..(Len(d) + 1) : a = 1 \/ d[a - 1] = "\n"}
LineAt(d, a) ==
    LET b == CHOOSE e \in (a - 1)..Len(d) :
                 /\ (e = Len(d) \/ d[e + 1] = "\n")
                 /\ \A i \in a..e : d[i] # "\n"
    IN SubSeq(d, a, b)
IsBlank(line) == \A i \in DOMAIN line : line[i] \in Whitespace
RECURSIVE Ascending(_)
Ascending(S) ==
    IF S = {} THEN <<>>
    ELSE LET m == CHOOSE x \in S : \A y \in S : x <= y IN <<m>> \o Ascending(S \ {m})
NonBlankLines(d) ==
    LET starts == Ascending({a \in LineStarts(d) : ~IsBlank(LineAt(d, a))})
    IN [j \in DOMAIN starts |-> LineAt(d, starts[j])]
StartsWithDashSpace(line) == Len(line) >= 2 /\ line[1] = "-" /\ line[2] = " "
BulletText(line) ==
    IF StartsWithDashSpace(line) THEN [i \in 1..(Len(line) - 2) |-> line[i + 2]] ELSE line
EntryStart(bs, exp) ==
    CHOOSE p \in DOMAIN bs :
        bs[p].style = "strong" /\ bs[p].text = exp.title \o <<" - ">> \o exp.company

\* C7: after the two header lines of every experience entry come one bullet
\* per non-blank line of its description, in line order, each with the text of
\* its line less one leading "- " when the line starts with "- ", and then the
\* spacer.
C7_BulletPerNonBlankLine ==
    \A c \in Calls : DocxBuilt(c) =>
        \A k \in DOMAIN resumeData.experience :
            LET exp == resumeData.experience[k]
                ls == NonBlankLines(exp.description)
                p == EntryStart(blocks[c], exp)
            IN /\ ~blocks[c][p + 1].bullet
               /\ \A j \in DOMAIN ls :
                     /\ blocks[c][p + 1 + j].bullet
                     /\ blocks[c][p + 1 + j].text = BulletText(ls[j])
               /\ blocks[c][p + 2 + Len(ls)] = Spacer

\* a saved document with an entry whose description is a blank line and the
\* line "- a", which gave the single bullet "a"
C7_Witness ==
    \E c \in Calls :
        /\ DocxBuilt(c) /\ pc[c] = "done"
        /\ \E k \in DOMAIN resumeData.experience :
              LET exp == resumeData.experience[k]
                  p == EntryStart(blocks[c], exp)
              IN /\ exp.description = <<"\n", "-", " ", "a">>
                 /\ blocks[c][p + 2] = Bullet(<<"a">>)
                 /\ blocks[c][p + 3] = Spacer

====
